---- MODULE Spec2Model ----
(***************************************************************************)
(* riff-wave: the chunk scanner (trait WaveReader over any Read + Seek     *)
(* stream) and the stateless format validators of src/lib.rs.              *)
(*                                                                         *)
(* A stream is a finite sequence of bytes with a cursor `pos` (0-based,    *)
(* the number of bytes in front of the cursor).  The scanner's operations  *)
(* are modelled from the code: validate_is_riff_file and                   *)
(* validate_is_wave_file as one step each, skip_until_subchunk as a call   *)
(* step followed by one step per iteration of its loop.                    *)
(***************************************************************************)
EXTENDS Integers, Sequences, FiniteSets

VARIABLES
    stream,     \* the bytes of the underlying stream
    pos,        \* the stream cursor
    pc,         \* "idle", or "skip" while skip_until_subchunk is in its loop
    op,         \* the operation called last: "none", "riff", "wave", "skip"
    target,     \* matching_tag of the running / last skip_until_subchunk
    startPos,   \* the cursor when the running / last operation was called
    walked,     \* the chunk headers read by the running / last skip call
    result,     \* the ReadResult of the last finished operation
    prev,       \* the call before the running / last one: [op, target, res]
    vin,        \* input of the format validators
    vcall,      \* the validator applied to vin ("none" before the call)
    vout        \* the ReadResult of that validator

vars == <<stream, pos, pc, op, target, startPos, walked, result, prev, vin, vcall, vout>>
scanVars == <<stream, pos, pc, op, target, startPos, walked, result, prev>>
valVars == <<vin, vcall, vout>>

(***************************************************************************)
(* Bounds of the model.                                                    *)
(***************************************************************************)
\* the most subchunks a generated stream holds after its head
MaxChunks == 2
\* the most bytes cut off the end of a generated stream (truncated input)
MaxCut == 3
\* the declared payload size of a generated subchunk is 0 or MaxPayload
MaxPayload == 1
\* fmt header sizes handed to validate_fmt_header_is_large_enough: 0..MaxSize
MaxSize == 22

(***************************************************************************)
(* Program constants.                                                      *)
(***************************************************************************)
FORMAT_UNCOMPRESSED_PCM == 1
FORMAT_EXTENDED == 65534
\* the largest u16, the type of a format code
U16Max == 2^16 - 1

(***************************************************************************)
(* Tags: 4 raw bytes, compared byte by byte.                               *)
(***************************************************************************)
TagRIFF == <<82, 73, 70, 70>>       \* b"RIFF"
TagWAVE == <<87, 65, 86, 69>>       \* b"WAVE"
TagFmt  == <<102, 109, 116, 32>>    \* b"fmt "
TagData == <<100, 97, 116, 97>>     \* b"data"
TagRIF  == <<82, 73, 70, 32>>       \* b"RIF " (test input)
TagWAV  == <<87, 65, 86, 32>>       \* b"WAV " (test input)
Spaces  == <<32, 32, 32, 32>>       \* b"    " (the tests' RIFF chunk size)

(***************************************************************************)
(* ReadResult<T>: Ok(value) | Err(Format(kind)) | Err(Io(_)).              *)
(* num is the u32 / u16 carried (a size, or the offending format code),    *)
(* -1 when nothing is carried.                                             *)
(***************************************************************************)
NoResult == [kind |-> "none", what |-> "", num |-> -1]
Ok(what, n) == [kind |-> "ok", what |-> what, num |-> n]
FormatErr(k, n) == [kind |-> "format", what |-> k, num |-> n]
IoErr == [kind |-> "io", what |-> "UnexpectedEof", num |-> -1]

(***************************************************************************)
(* The stream primitives the scanner uses (std::io::Read + Seek).          *)
(***************************************************************************)
\* bytes left between the cursor and the end of the stream
Avail(s, p) == IF p < Len(s) THEN Len(s) - p ELSE 0

\* Read::read_exact of n bytes at cursor p.  With n bytes left it returns
\* them and advances by n.  Otherwise it fails (UnexpectedEof) and, as
\* read_exact leaves unspecified how many bytes it has read by then, the
\* cursor is left after any number k of the bytes that were left.
ReadExact(s, p, n) ==
    IF p + n <= Len(s)
    THEN {[ok |-> TRUE, pos |-> p + n, bytes |-> SubSeq(s, p + 1, p + n)]}
    ELSE {[ok |-> FALSE, pos |-> p + k, bytes |-> <<>>] : k \in 0..Avail(s, p)}

\* ReadBytesExt::read_u32::<LittleEndian> applied to the 4 bytes read
U32LE(b) == b[1] + 256 * b[2] + 65536 * b[3] + 16777216 * b[4]

\* Variants of SeekCurrent with a bug, for checking that the properties
\* depend on the seek: one that steps over a padding byte after an odd
\* payload, one that seeks from the start of the stream (SeekFrom::Start),
\* one that seeks from the start of the chunk header instead of its end.
SeekCurrentPadded(p, n) == p + n + (n % 2)
SeekFromStart(p, n) == n
SeekFromHeader(p, n) == p + n - 8

\* Seek::seek(SeekFrom::Current(n)) with n = subchunk_size.into() (u32 to
\* i64, so never negative): the cursor moves n bytes on, also past the end
\* of the stream; the new position stays far below 2^64, so it cannot fail.
SeekCurrent(p, n) == p + n

(***************************************************************************)
(* trait WaveReader                                                        *)
(***************************************************************************)
\* fn read_tag: the outcomes, each [ok, pos, tag]
read_tag(s, p) ==
    {[ok |-> r.ok, pos |-> r.pos, tag |-> r.bytes] : r \in ReadExact(s, p, 4)}

\* fn read_chunk_size: the outcomes, each [ok, pos, size]
read_chunk_size(s, p) ==
    {[ok |-> r.ok, pos |-> r.pos, size |-> IF r.ok THEN U32LE(r.bytes) ELSE -1]
        : r \in ReadExact(s, p, 4)}

\* A variant of validate_tag with a bug: a short read counts as a mismatch.
validate_tag_short_is_mismatch(s, p, expected_tag, err_kind) ==
    {[pos |-> t.pos,
      res |-> IF ~t.ok \/ t.tag # expected_tag THEN FormatErr(err_kind, -1)
              ELSE Ok("unit", -1)] : t \in read_tag(s, p)}

\* fn validate_tag: the outcomes, each [pos, res]
validate_tag(s, p, expected_tag, err_kind) ==
    {[pos |-> t.pos,
      res |-> IF ~t.ok THEN IoErr
              ELSE IF t.tag # expected_tag THEN FormatErr(err_kind, -1)
              ELSE Ok("unit", -1)] : t \in read_tag(s, p)}

\* Variants of validate_is_riff_file with a bug: one that rejects a chunk
\* size larger than what is left of the stream, one that reads the chunk
\* size before it looks at the tag.
validate_is_riff_file_checks_size(s, p) ==
    UNION {IF ~t.ok THEN {[pos |-> t.pos, res |-> IoErr]}
           ELSE IF t.tag # TagRIFF
           THEN {[pos |-> t.pos, res |-> FormatErr("NotARiffFile", -1)]}
           ELSE {[pos |-> c.pos,
                  res |-> IF ~c.ok THEN IoErr
                          ELSE IF c.size > Avail(s, c.pos)
                          THEN FormatErr("NotARiffFile", -1)
                          ELSE Ok("unit", -1)]
                    : c \in read_chunk_size(s, t.pos)}
           : t \in read_tag(s, p)}

validate_is_riff_file_reads_size_first(s, p) ==
    UNION {IF ~t.ok THEN {[pos |-> t.pos, res |-> IoErr]}
           ELSE {[pos |-> c.pos,
                  res |-> IF ~c.ok THEN IoErr
                          ELSE IF t.tag # TagRIFF THEN FormatErr("NotARiffFile", -1)
                          ELSE Ok("unit", -1)]
                    : c \in read_chunk_size(s, t.pos)}
           : t \in read_tag(s, p)}

\* fn validate_is_riff_file: validate_tag(b"RIFF"), then read (and drop)
\* the chunk size
validate_is_riff_file(s, p) ==
    UNION {IF v.res.kind # "ok"
           THEN {v}
           ELSE {[pos |-> c.pos, res |-> IF c.ok THEN Ok("unit", -1) ELSE IoErr]
                    : c \in read_chunk_size(s, v.pos)}
           : v \in validate_tag(s, p, TagRIFF, "NotARiffFile")}

\* A variant of validate_is_wave_file with a bug: it reads a chunk size
\* behind the tag, as validate_is_riff_file does.
validate_is_wave_file_reads_size(s, p) ==
    UNION {IF ~t.ok THEN {[pos |-> t.pos, res |-> IoErr]}
           ELSE IF t.tag # TagWAVE
           THEN {[pos |-> t.pos, res |-> FormatErr("NotAWaveFile", -1)]}
           ELSE {[pos |-> c.pos, res |-> IF c.ok THEN Ok("unit", -1) ELSE IoErr]
                    : c \in read_chunk_size(s, t.pos)}
           : t \in read_tag(s, p)}

\* fn validate_is_wave_file: validate_tag(b"WAVE") and nothing else
validate_is_wave_file(s, p) == validate_tag(s, p, TagWAVE, "NotAWaveFile")

\* One iteration of the loop of fn skip_until_subchunk: the outcomes, each
\* [pos, done, res, hdr]; hdr holds the header read, if one was read whole.
skip_until_subchunk_iter(s, p, matching_tag) ==
    UNION {IF ~t.ok
           THEN {[pos |-> t.pos, done |-> TRUE, res |-> IoErr, hdr |-> <<>>]}
           ELSE {IF ~c.ok
                 THEN [pos |-> c.pos, done |-> TRUE, res |-> IoErr, hdr |-> <<>>]
                 ELSE IF t.tag = matching_tag
                 THEN [pos |-> c.pos, done |-> TRUE, res |-> Ok("size", c.size),
                       hdr |-> <<[at |-> p, tag |-> t.tag, size |-> c.size]>>]
                 ELSE [pos |-> SeekCurrent(c.pos, c.size), done |-> FALSE,
                       res |-> NoResult,
                       hdr |-> <<[at |-> p, tag |-> t.tag, size |-> c.size]>>]
                 : c \in read_chunk_size(s, t.pos)}
           : t \in read_tag(s, p)}

(***************************************************************************)
(* The stateless format validators.                                        *)
(***************************************************************************)
\* A variant of validate_pcm_format with a bug: the extended format is
\* not recognised.
validate_pcm_format_no_extended(format) ==
    IF format = FORMAT_UNCOMPRESSED_PCM THEN Ok("UncompressedPcm", -1)
    ELSE FormatErr("NotAnUncompressedPcmWaveFile", format)

\* fn validate_pcm_format(format: u16) -> ReadResult<Format>
validate_pcm_format(format) ==
    IF format = FORMAT_UNCOMPRESSED_PCM THEN Ok("UncompressedPcm", -1)
    ELSE IF format = FORMAT_EXTENDED THEN Ok("Extended", -1)
    ELSE FormatErr("NotAnUncompressedPcmWaveFile", format)

\* A variant of validate_pcm_subformat with a bug: it accepts what
\* validate_pcm_format accepts.
validate_pcm_subformat_as_format(sub_format) ==
    IF sub_format \in {FORMAT_UNCOMPRESSED_PCM, FORMAT_EXTENDED} THEN Ok("unit", -1)
    ELSE FormatErr("NotAnUncompressedPcmWaveFile", sub_format)

\* fn validate_pcm_subformat(sub_format: u16) -> ReadResult<()>
validate_pcm_subformat(sub_format) ==
    IF sub_format = FORMAT_UNCOMPRESSED_PCM THEN Ok("unit", -1)
    ELSE FormatErr("NotAnUncompressedPcmWaveFile", sub_format)

\* A variant of validate_fmt_header_is_large_enough with a bug: <= for <.
validate_fmt_header_is_larger(size, min_size) ==
    IF size <= min_size THEN FormatErr("FmtChunkTooShort", -1)
    ELSE Ok("unit", -1)

\* fn validate_fmt_header_is_large_enough(size: u32, min_size: u32)
validate_fmt_header_is_large_enough(size, min_size) ==
    IF size < min_size THEN FormatErr("FmtChunkTooShort", -1)
    ELSE Ok("unit", -1)

(***************************************************************************)
(* The streams the scanner is run on: a head (nothing, or the RIFF chunk   *)
(* header and form type, well-formed or not, as in the tests), then up to  *)
(* MaxChunks subchunks "fmt " / "data" with a declared size and that many  *)
(* payload bytes (no padding byte), then up to MaxCut bytes cut off the    *)
(* end.                                                                    *)
(***************************************************************************)
\* the 4 bytes read_u32::<LittleEndian> decodes to n
LE32(n) == <<n % 256, (n \div 256) % 256, (n \div 65536) % 256, (n \div 16777216) % 256>>

Payload(n) == [i \in 1..n |-> 0]

Chunk(tag, size) == tag \o LE32(size) \o Payload(size)

ChunkTags == {TagFmt, TagData}

PayloadSizes == {0, MaxPayload}

Chunks == {Chunk(t, n) : t \in ChunkTags, n \in PayloadSizes}

RECURSIVE Bodies(_)
Bodies(n) ==
    IF n = 0 THEN {<<>>}
    ELSE LET shorter == Bodies(n - 1)
         IN  shorter \cup {b \o c : b \in shorter, c \in Chunks}

Heads ==
    { <<>>,
      TagRIFF \o Spaces \o TagWAVE,
      TagRIFF \o LE32(0) \o TagWAVE,
      TagRIFF \o <<255, 255, 255, 126>> \o TagWAVE,
      TagRIF \o Spaces \o TagWAV }

Streams ==
    {SubSeq(h \o b, 1, Len(h \o b) - cut) :
        <<h, b, cut>> \in
            {x \in Heads \X Bodies(MaxChunks) \X (0..MaxCut) : x[3] <= Len(x[1] \o x[2])}}

\* the tags skip_until_subchunk is asked for
Targets == {TagFmt, TagData}

(***************************************************************************)
(* The scanner: a freshly opened stream, then any sequence of calls.       *)
(***************************************************************************)
ValidatorsIdle ==
    /\ vin = [kind |-> "none", code |-> 0, size |-> 0, min_size |-> 0]
    /\ vcall = "none"
    /\ vout = NoResult

ScannerIdle ==
    /\ pos = 0
    /\ pc = "idle"
    /\ op = "none"
    /\ target = <<>>
    /\ startPos = 0
    /\ walked = <<>>
    /\ result = NoResult
    /\ prev = [op |-> "none", target |-> <<>>, res |-> NoResult]

\* what a new call remembers of the call before it
Finished == [op |-> op, target |-> target, res |-> result]

Init ==
    /\ stream \in Streams
    /\ ScannerIdle
    /\ ValidatorsIdle

\* a call of validate_is_riff_file
ValidateIsRiffFile ==
    /\ pc = "idle"
    /\ \E o \in validate_is_riff_file(stream, pos) :
          /\ pos' = o.pos
          /\ result' = o.res
    /\ op' = "riff"
    /\ startPos' = pos
    /\ walked' = <<>>
    /\ prev' = Finished
    /\ UNCHANGED <<stream, pc, target, valVars>>

\* a call of validate_is_wave_file
ValidateIsWaveFile ==
    /\ pc = "idle"
    /\ \E o \in validate_is_wave_file(stream, pos) :
          /\ pos' = o.pos
          /\ result' = o.res
    /\ op' = "wave"
    /\ startPos' = pos
    /\ walked' = <<>>
    /\ prev' = Finished
    /\ UNCHANGED <<stream, pc, target, valVars>>

\* a call of skip_until_subchunk(matching_tag): control enters the loop
SkipUntilSubchunk ==
    /\ pc = "idle"
    /\ \E matching_tag \in Targets : target' = matching_tag
    /\ pc' = "skip"
    /\ op' = "skip"
    /\ startPos' = pos
    /\ walked' = <<>>
    /\ result' = NoResult
    /\ prev' = Finished
    /\ UNCHANGED <<stream, pos, valVars>>

\* one iteration of the loop of skip_until_subchunk: it returns (a match,
\* or a failed read) or seeks over the payload and goes round again
SkipLoop ==
    /\ pc = "skip"
    /\ \E o \in skip_until_subchunk_iter(stream, pos, target) :
          /\ pos' = o.pos
          /\ walked' = walked \o o.hdr
          /\ result' = o.res
          /\ pc' = IF o.done THEN "idle" ELSE "skip"
    /\ UNCHANGED <<stream, op, target, startPos, prev, valVars>>

Next ==
    \/ ValidateIsRiffFile
    \/ ValidateIsWaveFile
    \/ SkipUntilSubchunk
    \/ SkipLoop

Spec == Init /\ [][Next]_vars

\* The code is synchronous and single-threaded: a call that is in its loop
\* goes on running.
FairSpec == Spec /\ WF_vars(SkipLoop)

(***************************************************************************)
(* The validators: an input, then one validator applied to it.             *)
(***************************************************************************)
\* fmt chunk sizes: small ones and a large one
SizeVals == (0..MaxSize) \cup {U32LE(Spaces)}

ValidatorInputs ==
    {[kind |-> "code", code |-> c, size |-> 0, min_size |-> 0] : c \in 0..U16Max}
    \cup
    {[kind |-> "sizes", code |-> 0, size |-> a, min_size |-> b] :
        a \in SizeVals, b \in SizeVals}

ValidatorInit ==
    /\ stream = <<>>
    /\ ScannerIdle
    /\ vin \in ValidatorInputs
    /\ vcall = "none"
    /\ vout = NoResult

ValidatePcmFormat ==
    /\ vcall = "none"
    /\ vin.kind = "code"
    /\ vcall' = "validate_pcm_format"
    /\ vout' = validate_pcm_format(vin.code)
    /\ UNCHANGED <<vin, scanVars>>

ValidatePcmSubformat ==
    /\ vcall = "none"
    /\ vin.kind = "code"
    /\ vcall' = "validate_pcm_subformat"
    /\ vout' = validate_pcm_subformat(vin.code)
    /\ UNCHANGED <<vin, scanVars>>

ValidateFmtHeaderIsLargeEnough ==
    /\ vcall = "none"
    /\ vin.kind = "sizes"
    /\ vcall' = "validate_fmt_header_is_large_enough"
    /\ vout' = validate_fmt_header_is_large_enough(vin.size, vin.min_size)
    /\ UNCHANGED <<vin, scanVars>>

ValidatorNext ==
    \/ ValidatePcmFormat
    \/ ValidatePcmSubformat
    \/ ValidateFmtHeaderIsLargeEnough

ValidatorSpec == ValidatorInit /\ [][ValidatorNext]_vars

(***************************************************************************)
(* Properties.                                                             *)
(***************************************************************************)
\* a finished call of the named scanner operation
Returned(o) == op = o /\ pc = "idle"

\* the 4 bytes in front of cursor p, when the stream holds them
Has4(p) == p + 4 <= Len(stream)
At4(p) == SubSeq(stream, p + 1, p + 4)

\* the bytes of the chunks walked[1..n] that were seeked over, headers included
RECURSIVE SkippedBytes(_, _)
SkippedBytes(w, n) == IF n = 0 THEN 0 ELSE SkippedBytes(w, n - 1) + 8 + w[n].size

\* walked is a walk of the stream's chunk headers from startPos: each header
\* is the 4 tag bytes and the little-endian size found at its place, and the
\* next one lies exactly the declared size behind it
IsWalk ==
    \A i \in 1..Len(walked) :
        /\ walked[i].at = startPos + SkippedBytes(walked, i - 1)
        /\ Has4(walked[i].at + 4)
        /\ At4(walked[i].at) = walked[i].tag
        /\ At4(walked[i].at + 4) = LE32(walked[i].size)

\* C1: when skip_until_subchunk(target) returns a size, it has walked the
\* chunk headers from the cursor, seeking exactly the declared size over each
\* chunk whose tag differs; the header it stopped at is the first in walk
\* order with tag = target, the size returned is that header's declared size,
\* and the cursor is right behind that header's size field:
\* start + sum of (8 + size) of the skipped chunks + 8.
C1_SkipReturnsFirstMatch ==
    /\ op = "skip" => IsWalk
    /\ (Returned("skip") /\ result.kind = "ok") =>
        LET n == Len(walked) IN
        /\ n >= 1
        /\ walked[n].tag = target
        /\ \A i \in 1..(n - 1) : walked[i].tag # target
        /\ result = Ok("size", walked[n].size)
        /\ pos = startPos + SkippedBytes(walked, n - 1) + 8
        /\ pos = walked[n].at + 8

\* a chunk with an odd payload was skipped (no padding byte) before the match
C1_Witness ==
    /\ Returned("skip") /\ result.kind = "ok"
    /\ Len(walked) = 2
    /\ walked[1].size = 1
    /\ result.num = 0
    /\ pos = startPos + 17

\* the test stream with "data" in front of "fmt ", up to the declared sizes
DataBeforeFmt ==
    \E h \in Heads, n \in PayloadSizes, m \in PayloadSizes :
        stream = h \o Chunk(TagData, n) \o Chunk(TagFmt, m)

C2_NoRewind ==
    /\ (Returned("skip") /\ result.kind = "ok") =>
           /\ walked # <<>>
           /\ \A i \in 1..Len(walked) : walked[i].at >= startPos
    /\ ( /\ DataBeforeFmt
         /\ Returned("skip") /\ target = TagData
         /\ prev.op = "skip" /\ prev.target = TagFmt /\ prev.res.kind = "ok" ) =>
           /\ result = IoErr
           /\ Avail(stream, pos) < 4

\* C2: scanning is forward-only.  No step of validate_is_riff_file,
\* validate_is_wave_file or skip_until_subchunk moves the cursor back, so a
\* skip_until_subchunk call never returns a chunk whose header starts in
\* front of the cursor it was called at; on a stream with "data" before
\* "fmt ", the skip_until_subchunk("data") that follows a successful
\* skip_until_subchunk("fmt ") fails with an I/O error at the end of the
\* stream.
C2_ForwardOnly == [][pos' >= pos]_vars /\ []C2_NoRewind

\* the scenario of test_cant_read_first_subchunk_after_second
C2_Witness ==
    /\ stream = TagRIFF \o Spaces \o TagWAVE \o Chunk(TagData, 0) \o Chunk(TagFmt, 0)
    /\ Returned("skip") /\ target = TagData
    /\ prev.op = "skip" /\ prev.target = TagFmt /\ prev.res.kind = "ok"
    /\ result = IoErr
    /\ pos = Len(stream)

\* C3: when the 4 bytes at the cursor are the RIFF tag and 4 more bytes
\* follow, validate_is_riff_file succeeds, whatever those 4 size bytes are,
\* and leaves the cursor exactly 8 bytes on.
C3_RiffOk ==
    (Returned("riff") /\ Has4(startPos + 4) /\ At4(startPos) = TagRIFF) =>
        /\ result = Ok("unit", -1)
        /\ pos = startPos + 8

\* a RIFF header whose size field is far larger than the stream
C3_Witness ==
    /\ Returned("riff") /\ result.kind = "ok"
    /\ At4(startPos) = TagRIFF
    /\ At4(startPos + 4) = <<255, 255, 255, 126>>
    /\ pos = startPos + 8

\* C4: with 4 bytes at the cursor that differ from the RIFF tag,
\* validate_is_riff_file fails with Format(NotARiffFile), however many bytes
\* follow; with fewer than 4 bytes left it fails with an I/O error, never
\* with NotARiffFile.
C4_RiffErr ==
    Returned("riff") =>
        /\ (Has4(startPos) /\ At4(startPos) # TagRIFF) =>
               result = FormatErr("NotARiffFile", -1)
        /\ ~Has4(startPos) => result = IoErr

\* a wrong tag with nothing behind it
C4_Witness ==
    /\ Returned("riff")
    /\ Len(stream) = startPos + 4
    /\ At4(startPos) # TagRIFF
    /\ result = FormatErr("NotARiffFile", -1)

\* C5: validate_is_wave_file reads the next 4 bytes and no chunk size: it
\* succeeds exactly when 4 bytes are there and equal the WAVE tag, fails with
\* Format(NotAWaveFile) when 4 bytes are there and differ, and in both cases
\* leaves the cursor exactly 4 bytes on.
C5_Wave ==
    Returned("wave") =>
        /\ result.kind = "ok" <=> (Has4(startPos) /\ At4(startPos) = TagWAVE)
        /\ (Has4(startPos) /\ At4(startPos) # TagWAVE) =>
               result = FormatErr("NotAWaveFile", -1)
        /\ Has4(startPos) => pos = startPos + 4

\* the WAVE tag accepted with a chunk header behind it left unread
C5_Witness ==
    /\ Returned("wave") /\ result = Ok("unit", -1)
    /\ Has4(startPos + 8)
    /\ pos = startPos + 4

\* C6: validate_pcm_format(c) is UncompressedPcm for c = 1, Extended for
\* c = 65534, and otherwise Format(NotAnUncompressedPcmWaveFile(c)).
C6_PcmFormat ==
    vcall = "validate_pcm_format" =>
        /\ vin.code = 1 => vout = Ok("UncompressedPcm", -1)
        /\ vin.code = 65534 => vout = Ok("Extended", -1)
        /\ vin.code \notin {1, 65534} =>
               /\ vout.kind = "format"
               /\ vout.what = "NotAnUncompressedPcmWaveFile"
               /\ vout.num = vin.code

C6_Witness ==
    /\ vcall = "validate_pcm_format"
    /\ vin.code = 12345
    /\ vout = FormatErr("NotAnUncompressedPcmWaveFile", 12345)

\* C7: validate_pcm_subformat(c) succeeds exactly for c = 1; every other
\* code, 65534 included, fails with Format(NotAnUncompressedPcmWaveFile(c)).
C7_PcmSubformat ==
    vcall = "validate_pcm_subformat" =>
        /\ vout.kind = "ok" <=> vin.code = 1
        /\ vin.code # 1 =>
               /\ vout.kind = "format"
               /\ vout.what = "NotAnUncompressedPcmWaveFile"
               /\ vout.num = vin.code

C7_Witness ==
    /\ vcall = "validate_pcm_subformat"
    /\ vin.code = 65534
    /\ vout = FormatErr("NotAnUncompressedPcmWaveFile", 65534)

\* C8: validate_fmt_header_is_large_enough(size, min_size) fails, with
\* Format(FmtChunkTooShort), exactly when size < min_size.
C8_HeaderSize ==
    vcall = "validate_fmt_header_is_large_enough" =>
        /\ vout = FormatErr("FmtChunkTooShort", -1) <=> vin.size < vin.min_size
        /\ vin.size >= vin.min_size => vout = Ok("unit", -1)

C8_Witness ==
    /\ vcall = "validate_fmt_header_is_large_enough"
    /\ vin.size = 16 /\ vin.min_size = 16
    /\ vout.kind = "ok"

\* C9: the operations are fail-fast.  A failed validate_is_riff_file has
\* consumed fewer than 8 bytes, and exactly the 4 tag bytes (not the size)
\* on a tag mismatch; a validate_is_wave_file mismatch has consumed exactly
\* the 4 tag bytes.
C9_FailFast ==
    /\ (Returned("riff") /\ result.kind # "ok") =>
           /\ startPos <= pos /\ pos < startPos + 8
           /\ result.kind = "format" => pos = startPos + 4
    /\ (Returned("wave") /\ result.kind = "format") => pos = startPos + 4

\* a tag mismatch with the size bytes there to be read, and left unread
C9_Witness ==
    /\ Returned("riff") /\ result.kind = "format"
    /\ Has4(startPos + 4)
    /\ pos = startPos + 4

C10_Ends ==
    /\ Returned("skip") =>
           /\ result.kind \in {"ok", "io"}
           /\ result.kind = "ok" => walked[Len(walked)].tag = target
    /\ pc = "skip" => Len(walked) * 8 <= Avail(stream, startPos)

\* C10: skip_until_subchunk terminates on every finite stream.  Each
\* iteration that goes round again has moved the cursor at least 8 bytes on;
\* the loop makes no more iterations than the stream has 8-byte headers from
\* the start position; the call ends, with the size of a chunk whose tag
\* matches or with an I/O error, never with a Format error, also when a
\* declared size points past the end of the stream.
C10_Terminates ==
    /\ [][(pc = "skip" /\ pc' = "skip") => pos' >= pos + 8]_vars
    /\ []C10_Ends
    /\ (pc = "skip") ~> (pc = "idle")

\* a declared size pointed past the end of the stream: the seek went there
\* and the next read failed
C10_Witness ==
    /\ Returned("skip") /\ result = IoErr
    /\ walked # <<>>
    /\ pos > Len(stream)

====
